---- MODULE Spec2Model ----
(***************************************************************************)
(* In-place "next combination" generation (biowpn::next_combination and    *)
(* the copies in next_combination.cpp), its gapped rotation helper, the    *)
(* test_and_show driver and the operation-counting benchmark.              *)
(*                                                                         *)
(* An iterator into a sequence s is modelled as a 1-based position:        *)
(* begin is 1, end is Len(s) + 1, and *p is s[p].                          *)
(***************************************************************************)
EXTENDS Integers, Sequences, FiniteSets

\* Bounds of the model.
MaxLen == 5
MaxVal == 3
MaxCalls == 3
EnumLen == 5
EnumVal == 5
BenchN == 3
MaxLeftover == 1

VARIABLES
    seq,      \* the caller's sequence [first, last)
    r,        \* the split: mid = first + r
    seq0,     \* the sequence as the caller first supplied it
    before,   \* the sequence immediately before the latest call
    ret,      \* what the latest call returned: "none" before any call
    calls,    \* the number of calls made so far
    pc,       \* test_and_show: "print", "call", "call4", "callB", "done"
    out,      \* test_and_show: the lines written to std::cout
    seq4,     \* the same input, advanced by the 4-argument next_combination
    ret4,     \* what the 4-argument next_combination last returned
    seqB,     \* the same input, advanced by biowpn::next_combination
    retB,     \* what biowpn::next_combination last returned
    args,     \* rotate_disjoint: <<first1, last1, first2, last2>> of the call made
    value_comparisons,  \* tracked_stats::value_comparisons
    value_swaps,        \* tracked_stats::value_swaps
    iter_comparisons,   \* tracked_stats::iter_comparisons
    iter_increments,    \* tracked_stats::iter_increments
    bpc,      \* benchmark_next_combination: where it is
    br,       \* benchmark_next_combination: the loop variable r
    data,     \* benchmark_next_combination: the vector data
    ops,      \* the tracked operations the running generator call has yet to do
    pending,  \* the outcome of the running generator call
    reported  \* what report_tracked_stats wrote: <<>> before the report

callVars == <<seq, r, seq0, before, ret, calls>>
enumVars == <<pc, out, seq4, ret4, seqB, retB>>
counters == <<value_comparisons, value_swaps, iter_comparisons, iter_increments>>
benchVars == <<counters, bpc, br, data, ops, pending, reported>>
vars == <<callVars, enumVars, args, benchVars>>

----------------------------------------------------------------------------
\* Standard-library algorithms used by the source, by their specified effect.

\* A copy in place of the exchange: *a = *b only.
iter_swap_copy(s, a, b) == [s EXCEPT ![a] = s[b]]

\* std::iter_swap(a, b)
iter_swap(s, a, b) == [s EXCEPT ![a] = s[b], ![b] = s[a]]

\* std::swap_ranges(first1, last1, first2): element-wise swaps, front to back.
RECURSIVE swap_ranges(_, _, _, _)
swap_ranges(s, first1, last1, first2) ==
    IF first1 = last1 THEN s
    ELSE swap_ranges(iter_swap(s, first1, first2), first1 + 1, last1, first2 + 1)

\* std::rotate(first, middle, last): [middle, last) comes first, then
\* [first, middle), each in its order.
rotate(s, first, middle, last) ==
    [i \in 1..Len(s) |->
        IF i < first \/ i >= last THEN s[i]
        ELSE IF i < first + (last - middle) THEN s[middle + (i - first)]
        ELSE s[first + (i - (first + (last - middle)))]]

\* std::reverse(first, last)
reverse(s, first, last) ==
    [i \in 1..Len(s) |->
        IF i < first \/ i >= last THEN s[i] ELSE s[first + last - 1 - i]]

\* The values held by s.
Elements(s) == {s[i] : i \in DOMAIN s}

\* std::lower_bound(first, last, val): the positions a binary search for the
\* first element not less than val can end at.  On a range partitioned with
\* respect to (e < val) this is the single partition point; on any other range
\* the call has undefined behaviour and the result depends on the probes taken:
\* every probe sequence ends at a position whose predecessor (if any) compared
\* less than val and which itself (if not last) did not.
lower_bound(s, first, last, val) ==
    {p \in first..last :
        /\ (p = first \/ s[p - 1] < val)
        /\ (p = last \/ ~(s[p] < val))}

\* upper_bound searching for the first element not less than val, as
\* lower_bound does.
upper_bound_as_lower(s, first, last, val) ==
    {p \in first..last :
        /\ (p = first \/ s[p - 1] < val)
        /\ (p = last \/ ~(s[p] < val))}

\* upper_bound ending one position early.
upper_bound_one_early(s, first, last, val) ==
    {IF p > first THEN p - 1 ELSE p : p \in
        {q \in first..last :
            /\ (q = first \/ ~(val < s[q - 1]))
            /\ (q = last \/ val < s[q])}}

\* std::upper_bound(first, last, val): likewise for the first element
\* greater than val.
upper_bound(s, first, last, val) ==
    {p \in first..last :
        /\ (p = first \/ ~(val < s[p - 1]))
        /\ (p = last \/ val < s[p])}

----------------------------------------------------------------------------
\* rotate_disjoint with the two trailing rotations left out.
rotate_disjoint_no_rotate(s, first1, last1, first2, last2) ==
    LET n1 == last1 - first1
        n2 == last2 - first2
    IN  IF n1 <= n2
        THEN swap_ranges(s, first1, last1, first2)
        ELSE swap_ranges(s, last1 - n2, last1, first2)

\* rotate_disjoint whose second branch exchanges the first n2 elements of
\* the longer range instead of its last n2.
rotate_disjoint_swap_front(s, first1, last1, first2, last2) ==
    LET n1 == last1 - first1
        n2 == last2 - first2
    IN  IF n1 <= n2
        THEN LET mid2 == first2 + n1
             IN  rotate(swap_ranges(s, first1, last1, first2), first2, mid2, last2)
        ELSE LET mid1 == first1 + n2
             IN  rotate(swap_ranges(s, first1, mid1, first2), first1, mid1, last1)

\* biowpn::rotate_disjoint(first1, last1, first2, last2)
rotate_disjoint(s, first1, last1, first2, last2) ==
    LET n1 == last1 - first1
        n2 == last2 - first2
    IN  IF n1 <= n2
        THEN LET mid2 == first2 + n1
             IN  rotate(swap_ranges(s, first1, last1, first2), first2, mid2, last2)
        ELSE LET mid1 == last1 - n2
             IN  rotate(swap_ranges(s, mid1, last1, first2), first1, mid1, last1)

\* biowpn::next_combination, lines 26 to 33: the pairs <<left, right>> of
\* positions a call hands to std::iter_swap (none when the call returns
\* false).
swap_positions(s, first, mid, last) ==
    IF first = mid \/ mid = last
    THEN {}
    ELSE UNION {
        IF lb = first
        THEN {}
        ELSE {<<lb - 1, right>> : right \in upper_bound(s, mid, last, s[lb - 1])}
        : lb \in lower_bound(s, first, mid, s[last - 1])}

\* next_combination answering true on an empty selection or pool.
biowpn_next_combination_true_on_empty(s, first, mid, last) ==
    IF first = mid \/ mid = last
    THEN {[seq |-> s, ret |-> TRUE]}
    ELSE UNION {
        IF lb = first
        THEN {[seq |-> rotate(s, first, mid, last), ret |-> FALSE]}
        ELSE LET left == lb - 1
             IN  {[seq |-> rotate_disjoint(iter_swap(s, left, right),
                                           left + 1, mid, right + 1, last),
                   ret |-> TRUE] : right \in upper_bound(s, mid, last, s[left])}
        : lb \in lower_bound(s, first, mid, s[last - 1])}

\* biowpn::next_combination(first, mid, last): the set of outcomes
\* [seq, ret] of one call (one outcome whenever both searches are on
\* partitioned ranges).
biowpn_next_combination(s, first, mid, last) ==
    IF first = mid \/ mid = last
    THEN {[seq |-> s, ret |-> FALSE]}
    ELSE UNION {
        IF lb = first
        THEN {[seq |-> rotate(s, first, mid, last), ret |-> FALSE]}
        ELSE LET left == lb - 1
             IN  {[seq |-> rotate_disjoint(iter_swap(s, left, right),
                                           left + 1, mid, right + 1, last),
                   ret |-> TRUE] : right \in upper_bound(s, mid, last, s[left])}
        : lb \in lower_bound(s, first, mid, s[last - 1])}

----------------------------------------------------------------------------
\* next_combination.cpp: its own copies of the two functions above, and the
\* 4-argument scan/swap/reverse generator.

\* rotate2 with the two trailing rotations left out.
rotate2_no_rotate(s, first1, last1, first2, last2) ==
    LET n1 == last1 - first1
        n2 == last2 - first2
    IN  IF n1 <= n2
        THEN swap_ranges(s, first1, last1, first2)
        ELSE swap_ranges(s, last1 - n2, last1, first2)

\* rotate2(first1, last1, first2, last2)
rotate2(s, first1, last1, first2, last2) ==
    LET n1 == last1 - first1
        n2 == last2 - first2
    IN  IF n1 <= n2
        THEN LET mid2 == first2 + n1
             IN  rotate(swap_ranges(s, first1, last1, first2), first2, mid2, last2)
        ELSE LET mid1 == last1 - n2
             IN  rotate(swap_ranges(s, mid1, last1, first2), first1, mid1, last1)

\* The 3-argument next_combination returning false on exhaustion without
\* rotating the range back.
next_combination3_no_reset(s, first, mid, last) ==
    IF first = mid \/ mid = last
    THEN {[seq |-> s, ret |-> FALSE]}
    ELSE UNION {
        IF lb = first
        THEN {[seq |-> s, ret |-> FALSE]}
        ELSE LET left == lb - 1
             IN  {[seq |-> rotate2(iter_swap(s, left, right),
                                   left + 1, mid, right + 1, last),
                   ret |-> TRUE] : right \in upper_bound(s, mid, last, s[left])}
        : lb \in lower_bound(s, first, mid, s[last - 1])}

\* next_combination(first, mid, last) of next_combination.cpp
next_combination3(s, first, mid, last) ==
    IF first = mid \/ mid = last
    THEN {[seq |-> s, ret |-> FALSE]}
    ELSE UNION {
        IF lb = first
        THEN {[seq |-> rotate(s, first, mid, last), ret |-> FALSE]}
        ELSE LET left == lb - 1
             IN  {[seq |-> rotate2(iter_swap(s, left, right),
                                   left + 1, mid, right + 1, last),
                   ret |-> TRUE] : right \in upper_bound(s, mid, last, s[left])}
        : lb \in lower_bound(s, first, mid, s[last - 1])}

\* while (--m1 != first1 && !(*m1 < *m2)) {}   : the final m1
RECURSIVE scan_m1(_, _, _, _)
scan_m1(s, m1, first1, m2) ==
    LET m == m1 - 1
    IN  IF m # first1 /\ ~(s[m] < s[m2]) THEN scan_m1(s, m, first1, m2) ELSE m

\* while (first2 != m2 && !(*m1 < *first2)) ++first2;   : the final first2
RECURSIVE scan_first2(_, _, _, _)
scan_first2(s, first2, m2, m1) ==
    IF first2 # m2 /\ ~(s[m1] < s[first2])
    THEN scan_first2(s, first2 + 1, m2, m1)
    ELSE first2

\* while ((m1 != first1) && (m2 != last2)) { iter_swap(--m1, m2); ++m2; }
\* : the sequence and the final m1, m2
RECURSIVE swap_loop(_, _, _, _, _)
swap_loop(s, m1, first1, m2, last2) ==
    IF m1 # first1 /\ m2 # last2
    THEN swap_loop(iter_swap(s, m1 - 1, m2), m1 - 1, first1, m2 + 1, last2)
    ELSE [seq |-> s, m1 |-> m1, m2 |-> m2]

\* The 4-argument next_combination without its last std::reverse.
next_combination4_missing_reverse(s, first1, last1, first2, last2) ==
    IF first1 = last1 \/ first2 = last2
    THEN [seq |-> s, ret |-> FALSE]
    ELSE
      LET m2 == last2 - 1
          m1 == scan_m1(s, last1, first1, m2)
          result == (m1 = first1) /\ ~(s[first1] < s[m2])
          f2 == scan_first2(s, first2, m2, m1)
          s1 == IF result THEN s ELSE iter_swap(s, m1, f2)
          nfirst1 == IF result THEN first1 ELSE m1 + 1
          nfirst2 == IF result THEN first2 ELSE f2 + 1
      IN  IF nfirst1 # last1 /\ nfirst2 # last2
          THEN LET w == swap_loop(s1, last1, nfirst1, nfirst2, last2)
                   a == reverse(w.seq, nfirst1, w.m1)
                   b == reverse(a, nfirst1, last1)
                   c == reverse(b, w.m2, last2)
               IN  [seq |-> c, ret |-> ~result]
          ELSE [seq |-> s1, ret |-> ~result]

\* next_combination(first1, last1, first2, last2) of next_combination.cpp
next_combination4(s, first1, last1, first2, last2) ==
    IF first1 = last1 \/ first2 = last2
    THEN [seq |-> s, ret |-> FALSE]
    ELSE
      LET m2 == last2 - 1
          m1 == scan_m1(s, last1, first1, m2)
          result == (m1 = first1) /\ ~(s[first1] < s[m2])
          f2 == scan_first2(s, first2, m2, m1)
          s1 == IF result THEN s ELSE iter_swap(s, m1, f2)
          nfirst1 == IF result THEN first1 ELSE m1 + 1
          nfirst2 == IF result THEN first2 ELSE f2 + 1
      IN  IF nfirst1 # last1 /\ nfirst2 # last2
          THEN LET w == swap_loop(s1, last1, nfirst1, nfirst2, last2)
                   a == reverse(w.seq, nfirst1, w.m1)
                   b == reverse(a, nfirst1, last1)
                   c == reverse(b, w.m2, last2)
                   d == reverse(c, nfirst2, last2)
               IN  [seq |-> d, ret |-> ~result]
          ELSE [seq |-> s1, ret |-> ~result]

----------------------------------------------------------------------------
\* A caller with an arbitrary sequence and split, calling repeatedly.

BoolStr(b) == IF b THEN "true" ELSE "false"

\* The parts of the state a scenario does not use.
EnumIdle ==
    /\ pc = "idle"
    /\ out = <<>>
    /\ seq4 = <<>>
    /\ ret4 = "none"
    /\ seqB = <<>>
    /\ retB = "none"

BenchIdle ==
    /\ value_comparisons = 0
    /\ value_swaps = 0
    /\ iter_comparisons = 0
    /\ iter_increments = 0
    /\ bpc = "idle"
    /\ br = 0
    /\ data = <<>>
    /\ ops = <<>>
    /\ pending = [seq |-> <<>>, ret |-> FALSE]
    /\ reported = <<>>

Values == 1..MaxVal
AllSequences == UNION {[1..k -> Values] : k \in 0..MaxLen}

Init ==
    /\ seq \in AllSequences
    /\ r \in 0..Len(seq)
    /\ seq0 = seq
    /\ before = seq
    /\ ret = "none"
    /\ calls = 0
    /\ EnumIdle
    /\ args = <<>>
    /\ BenchIdle

Call ==
    /\ calls < MaxCalls
    /\ \E o \in biowpn_next_combination(seq, 1, r + 1, Len(seq) + 1) :
        /\ seq' = o.seq
        /\ ret' = BoolStr(o.ret)
    /\ before' = seq
    /\ calls' = calls + 1
    /\ UNCHANGED <<r, seq0>>
    /\ UNCHANGED <<enumVars, args, benchVars>>

Next == Call

Spec == Init /\ [][Next]_vars

----------------------------------------------------------------------------
\* test_and_show(str, r) of next_combination.cpp: print, advance, repeat while
\* the generator returns true.  The variable seq is its str.  After each call
\* the other two generators are run on their own copies of the same input.

\* The string "ABCDE" of main, as character codes.
ABCDE == <<65, 66, 67, 68, 69>>

\* Ascending sequences (equal neighbours allowed) of up to EnumLen elements.
AscendingInputs ==
    {s \in UNION {[1..k -> 1..EnumVal] : k \in 0..EnumLen} :
        \A i \in 1..(Len(s) - 1) : s[i] <= s[i + 1]}

EnumInit ==
    /\ seq \in AscendingInputs \cup {ABCDE}
    /\ r \in 0..Len(seq)
    /\ seq0 = seq
    /\ before = seq
    /\ ret = "none"
    /\ calls = 0
    /\ pc = "print"
    /\ out = <<>>
    /\ seq4 = seq
    /\ ret4 = "none"
    /\ seqB = seq
    /\ retB = "none"
    /\ args = <<>>
    /\ BenchIdle

\* std::cout << "  " << str << '\n';
ShowLine ==
    /\ pc = "print"
    /\ out' = Append(out, seq)
    /\ pc' = "call"
    /\ UNCHANGED <<callVars, seq4, ret4, seqB, retB, args, benchVars>>

\* next_combination(str.begin(), str.begin() + r, str.end())
Call3 ==
    /\ pc = "call"
    /\ \E o \in next_combination3(seq, 1, r + 1, Len(seq) + 1) :
        /\ seq' = o.seq
        /\ ret' = BoolStr(o.ret)
    /\ before' = seq
    /\ calls' = calls + 1
    /\ pc' = "call4"
    /\ UNCHANGED <<r, seq0, out, seq4, ret4, seqB, retB, args, benchVars>>

\* next_combination(begin, begin + r, begin + r, end) on the second copy
Call4 ==
    /\ pc = "call4"
    /\ LET o == next_combination4(seq4, 1, r + 1, r + 1, Len(seq4) + 1)
       IN  /\ seq4' = o.seq
           /\ ret4' = BoolStr(o.ret)
    /\ pc' = "callB"
    /\ UNCHANGED <<callVars, out, seqB, retB, args, benchVars>>

\* biowpn::next_combination(begin, begin + r, end) on the third copy; then
\* the loop condition of test_and_show.
CallB ==
    /\ pc = "callB"
    /\ \E o \in biowpn_next_combination(seqB, 1, r + 1, Len(seqB) + 1) :
        /\ seqB' = o.seq
        /\ retB' = BoolStr(o.ret)
    /\ pc' = IF ret = "true" THEN "print" ELSE "done"
    /\ UNCHANGED <<callVars, out, seq4, ret4, args, benchVars>>

EnumNext == ShowLine \/ Call3 \/ Call4 \/ CallB

SpecEnum == EnumInit /\ [][EnumNext]_vars

----------------------------------------------------------------------------
\* One call of rotate_disjoint on two ranges A = [first1, last1) and
\* B = [first2, last2) of one sequence, A before B, possibly with a gap.

RotInit ==
    /\ seq \in AscendingInputs
    /\ r = 0
    /\ seq0 = seq
    /\ before = seq
    /\ ret = "none"
    /\ calls = 0
    /\ EnumIdle
    /\ args = <<>>
    /\ BenchIdle

RotateDisjoint ==
    /\ calls = 0
    /\ \E first1, last1, first2, last2 \in 1..(Len(seq) + 1) :
        /\ first1 <= last1 /\ last1 <= first2 /\ first2 <= last2
        /\ seq' = rotate_disjoint(seq, first1, last1, first2, last2)
        /\ args' = <<first1, last1, first2, last2>>
    /\ before' = seq
    /\ calls' = 1
    /\ UNCHANGED <<r, seq0, ret, enumVars, benchVars>>

RotNext == RotateDisjoint

SpecRotate == RotInit /\ [][RotNext]_vars

----------------------------------------------------------------------------
\* benchmark.cpp: benchmark_next_combination(n, biowpn::next_combination) over
\* tracked<size_t> values behind tracked_iterator positions.
\*
\* A generator call is split into the tracked operations it performs, one
\* step each: "vc" a value comparison, "vs" a value swap, "ic" an iterator
\* comparison or difference, "ii" an iterator increment, decrement or offset.
\* The operations written in biowpn.hpp are listed as written; inside the
\* standard algorithms the textbook implementations are assumed (halving
\* search; element-wise exchange), whose operation counts a particular
\* library may not match.  The elements move when the call returns.

\* The probes of a halving search over [first, first + len); less(e) tells
\* whether the search continues to the right of element e.
RECURSIVE search_ops(_, _, _, _)
search_ops(s, first, len, right_of) ==
    IF len = 0 THEN <<>>
    ELSE LET half == len \div 2
             middle == first + half
         IN  <<"ii", "vc">> \o
             (IF right_of[s[middle]]
              THEN <<"ii">> \o search_ops(s, middle + 1, len - half - 1, right_of)
              ELSE search_ops(s, first, half, right_of))

\* std::lower_bound(first, last, val): std::distance, then the probes.
lower_bound_ops(s, first, last, val) ==
    <<"ic">> \o search_ops(s, first, last - first, [e \in Elements(s) |-> e < val])

\* std::upper_bound(first, last, val)
upper_bound_ops(s, first, last, val) ==
    <<"ic">> \o search_ops(s, first, last - first, [e \in Elements(s) |-> ~(val < e)])

\* std::swap_ranges over n elements: compare, swap, advance both; last compare.
RECURSIVE swap_ranges_ops(_)
swap_ranges_ops(n) ==
    IF n = 0 THEN <<"ic">>
    ELSE <<"ic", "vs", "ii", "ii">> \o swap_ranges_ops(n - 1)

\* std::rotate(first, middle, last): the two emptiness tests, then one
\* exchange per position of the range.
RECURSIVE exchange_ops(_)
exchange_ops(n) ==
    IF n = 0 THEN <<>> ELSE <<"vs", "ii", "ic">> \o exchange_ops(n - 1)

rotate_ops(first, middle, last) ==
    IF first = middle THEN <<"ic">>
    ELSE IF middle = last THEN <<"ic", "ic">>
    ELSE <<"ic", "ic">> \o exchange_ops(last - first)

\* rotate_disjoint: two std::distance, then the branch taken.
rotate_disjoint_ops(first1, last1, first2, last2) ==
    LET n1 == last1 - first1
        n2 == last2 - first2
    IN  <<"ic", "ic">> \o
        (IF n1 <= n2
         THEN swap_ranges_ops(n1) \o rotate_ops(first2, first2 + n1, last2)
         ELSE <<"ii">> \o swap_ranges_ops(n2) \o rotate_ops(first1, last1 - n2, last1))

\* biowpn::next_combination: the tracked operations of one call, in order.
next_combination_ops(s, first, mid, last) ==
    IF first = mid THEN <<"ic">>
    ELSE IF mid = last THEN <<"ic", "ic">>
    ELSE
      LET val == s[last - 1]
          lb == CHOOSE p \in lower_bound(s, first, mid, val) : TRUE
          left == lb - 1
          right == CHOOSE p \in upper_bound(s, mid, last, s[left]) : TRUE
      IN  <<"ic", "ic", "ii">> \o lower_bound_ops(s, first, mid, val) \o <<"ic">> \o
          (IF lb = first
           THEN rotate_ops(first, mid, last)
           ELSE <<"ii">> \o upper_bound_ops(s, mid, last, s[left]) \o
                <<"vs", "ii", "ii">> \o
                rotate_disjoint_ops(left + 1, mid, right + 1, last))

\* main runs other sweeps before benchmark_biowpn: the counters start at
\* whatever those left.
BenchInit ==
    /\ seq = <<>>
    /\ r = 0
    /\ seq0 = <<>>
    /\ before = <<>>
    /\ ret = "none"
    /\ calls = 0
    /\ EnumIdle
    /\ args = <<>>
    /\ value_comparisons \in 0..MaxLeftover
    /\ value_swaps \in 0..MaxLeftover
    /\ iter_comparisons \in 0..MaxLeftover
    /\ iter_increments \in 0..MaxLeftover
    /\ bpc = "reset"
    /\ br = 0
    /\ data = <<>>
    /\ ops = <<>>
    /\ pending = [seq |-> <<>>, ret |-> FALSE]
    /\ reported = <<>>

\* reset_tracked_stats that leaves value_swaps as it was.
ResetForgetsSwaps ==
    /\ bpc = "reset"
    /\ value_comparisons' = 0
    /\ iter_comparisons' = 0
    /\ iter_increments' = 0
    /\ br' = 0
    /\ bpc' = "build"
    /\ UNCHANGED <<value_swaps, data, ops, pending, reported, callVars, enumVars, args>>

\* reset_tracked_stats(); then the for loop starts at r = 0.
Reset ==
    /\ bpc = "reset"
    /\ value_comparisons' = 0
    /\ value_swaps' = 0
    /\ iter_comparisons' = 0
    /\ iter_increments' = 0
    /\ br' = 0
    /\ bpc' = "build"
    /\ UNCHANGED <<data, ops, pending, reported, callVars, enumVars, args>>

\* for (r <= n): data = {0, ..., n - 1}
Build ==
    /\ bpc = "build"
    /\ br <= BenchN
    /\ data' = [i \in 1..BenchN |-> i - 1]
    /\ bpc' = "call"
    /\ UNCHANGED <<counters, br, ops, pending, reported, callVars, enumVars, args>>

\* next_combination_fn(begin, begin + r, end) is entered.
BeginCall ==
    /\ bpc = "call"
    /\ ops' = next_combination_ops(data, 1, br + 1, Len(data) + 1)
    /\ \E o \in biowpn_next_combination(data, 1, br + 1, Len(data) + 1) :
        pending' = o
    /\ bpc' = "run"
    /\ UNCHANGED <<counters, br, data, reported, callVars, enumVars, args>>

\* tracked::operator<=>, tracked::operator==
TrackedCompare ==
    /\ bpc = "run" /\ ops # <<>> /\ Head(ops) = "vc"
    /\ value_comparisons' = value_comparisons + 1
    /\ ops' = Tail(ops)
    /\ UNCHANGED <<value_swaps, iter_comparisons, iter_increments, bpc, br, data,
                   pending, reported, callVars, enumVars, args>>

\* swap(tracked&, tracked&)
TrackedSwap ==
    /\ bpc = "run" /\ ops # <<>> /\ Head(ops) = "vs"
    /\ value_swaps' = value_swaps + 1
    /\ ops' = Tail(ops)
    /\ UNCHANGED <<value_comparisons, iter_comparisons, iter_increments, bpc, br,
                   data, pending, reported, callVars, enumVars, args>>

\* tracked_iterator::operator==, operator-(iterator), operator<=>
IterCompare ==
    /\ bpc = "run" /\ ops # <<>> /\ Head(ops) = "ic"
    /\ iter_comparisons' = iter_comparisons + 1
    /\ ops' = Tail(ops)
    /\ UNCHANGED <<value_comparisons, value_swaps, iter_increments, bpc, br, data,
                   pending, reported, callVars, enumVars, args>>

\* tracked_iterator::operator++, operator--, operator+=, operator-=
IterStep ==
    /\ bpc = "run" /\ ops # <<>> /\ Head(ops) = "ii"
    /\ iter_increments' = iter_increments + 1
    /\ ops' = Tail(ops)
    /\ UNCHANGED <<value_comparisons, value_swaps, iter_comparisons, bpc, br, data,
                   pending, reported, callVars, enumVars, args>>

\* The call returns: while (true) calls again, false moves to the next r.
Return ==
    /\ bpc = "run" /\ ops = <<>>
    /\ data' = pending.seq
    /\ IF pending.ret
       THEN bpc' = "call" /\ br' = br
       ELSE bpc' = "build" /\ br' = br + 1
    /\ UNCHANGED <<counters, ops, pending, reported, callVars, enumVars, args>>

\* The loop has ended: report_tracked_stats()
Report ==
    /\ bpc = "build"
    /\ br > BenchN
    /\ reported' = counters
    /\ bpc' = "done"
    /\ UNCHANGED <<counters, br, data, ops, pending, callVars, enumVars, args>>

BenchNext ==
    \/ Reset \/ Build \/ BeginCall
    \/ TrackedCompare \/ TrackedSwap \/ IterCompare \/ IterStep
    \/ Return \/ Report

SpecBench == BenchInit /\ [][BenchNext]_vars

----------------------------------------------------------------------------
\* Vocabulary of the properties.

\* The selection [first, mid) and the pool [mid, last) of s at split k.
Selection(s, k) == SubSeq(s, 1, k)
Pool(s, k) == SubSeq(s, k + 1, Len(s))

\* Ascending order (equal neighbours allowed).
Ascending(s) == \A i \in 1..(Len(s) - 1) : ~(s[i + 1] < s[i])

\* The number of positions of s holding v.
Count(s, v) == Cardinality({i \in DOMAIN s : s[i] = v})

\* s and t hold the same elements with the same multiplicities.
SameMultiset(s, t) ==
    /\ Len(s) = Len(t)
    /\ \A i \in DOMAIN s : Count(s, s[i]) = Count(t, s[i])

----------------------------------------------------------------------------
\* C1: every call of next_combination, whatever it returns, leaves the
\* sequence with the same length and the same multiset of elements as before
\* the call and as the caller first supplied it.
C1_MultisetInvariance ==
    /\ SameMultiset(before, seq)
    /\ SameMultiset(seq0, seq)

\* A call has returned true and moved elements.
C1_Witness ==
    /\ calls > 0
    /\ ret = "true"
    /\ seq # before
    /\ Len(seq) = MaxLen

\* C5: with an empty selection (r = 0) or an empty pool (r = n), every call,
\* first or later, returns false and leaves every element where it was.
C5_BoundaryNoOp ==
    (calls > 0 /\ (r = 0 \/ r = Len(seq))) =>
        (ret = "false" /\ seq = before /\ seq = seq0)

\* A second call on a full, unsorted selection.
C5_Witness ==
    /\ calls >= 2
    /\ r = Len(seq)
    /\ r >= 2
    /\ ~Ascending(seq)

\* C8 as stated: the pool supplied ascending on the first call is enough for
\* the pool to be ascending after every call.
C8_PoolAscendingGivenPoolOnly ==
    (calls > 0 /\ Ascending(Pool(seq0, r))) => Ascending(Pool(seq, r))

\* C8, amended: if the caller supplies both the selection and the pool in
\* ascending order on the first call, the pool is in ascending order after
\* that call and after every later call with the same split.
C8_PoolAscending ==
    (calls > 0 /\ Ascending(Selection(seq0, r)) /\ Ascending(Pool(seq0, r)))
        => Ascending(Pool(seq, r))

\* A later call has returned true on ranges supplied ascending, with a pool
\* of three elements that are not all equal.
C8_Witness ==
    /\ calls >= 2
    /\ ret = "true"
    /\ Ascending(Selection(seq0, r)) /\ Ascending(Pool(seq0, r))
    /\ Len(seq) - r >= 3
    /\ seq[r + 1] # seq[Len(seq)]

----------------------------------------------------------------------------
\* Vocabulary of the enumeration properties.

\* The binomial coefficient C(n, k).
RECURSIVE Binomial(_, _)
Binomial(n, k) ==
    IF k < 0 \/ k > n THEN 0
    ELSE IF k = 0 \/ k = n THEN 1
    ELSE Binomial(n - 1, k - 1) + Binomial(n - 1, k)


\* No two positions of s hold the same value.
Distinct(s) == Cardinality(Elements(s)) = Len(s)

\* a is lexicographically less than b under operator< (equal lengths).
LexLess(a, b) ==
    \E i \in DOMAIN a :
        /\ a[i] < b[i]
        /\ \A j \in 1..(i - 1) : ~(a[j] < b[j]) /\ ~(b[j] < a[j])

\* s at split k is the last combination: selection and pool ascending and no
\* selected element less than a pool element.
IsLastCombination(s, k) ==
    /\ Ascending(Selection(s, k))
    /\ Ascending(Pool(s, k))
    /\ \A i \in 1..k : \A j \in (k + 1)..Len(s) : ~(s[i] < s[j])

\* The selections of the printed lines, in order.
ShownSelections == [i \in 1..Len(out) |-> Selection(out[i], r)]

----------------------------------------------------------------------------
\* C2: from n distinct ascending elements and a split r, the loop visits
\* pairwise distinct selections, never more than C(n, r) of them, and when the
\* generator first returns false it has visited exactly C(n, r), the starting
\* arrangement included: C(n, r) calls were made, the last one returning false.
C2_CountCorrect ==
    Distinct(seq0) =>
        /\ Len(out) <= Binomial(Len(seq0), r)
        /\ \A i, j \in 1..Len(out) :
              i # j => Elements(Selection(out[i], r)) # Elements(Selection(out[j], r))
        /\ pc = "done" =>
              /\ Len(out) = Binomial(Len(seq0), r)
              /\ calls = Len(out)
              /\ ret = "false"

\* An enumeration of the 2-subsets of 5 distinct elements has finished.
C2_Witness ==
    /\ pc = "done"
    /\ Distinct(seq0)
    /\ Len(seq0) = 5
    /\ r = 2
    /\ Len(out) = 10

\* C3: in an enumeration started from an ascending sequence, after every call
\* that returns true the selection is strictly lexicographically greater than
\* it was immediately before the call.
C3_LexIncreasing ==
    ret = "true" => LexLess(Selection(before, r), Selection(seq, r))

\* A call returned true and lowered the last selected element (the pivot was
\* not the last position of the selection).
C3_Witness ==
    /\ ret = "true"
    /\ r >= 2
    /\ seq[r] < before[r]
    /\ seq[1] # before[1]

\* C4: a call made in the last combination state (selection and pool both
\* non-empty) returns false and leaves the whole sequence ascending, equal to
\* the arrangement the enumeration started from.
C4_ResetOnExhaustion ==
    (ret # "none" /\ 0 < r /\ r < Len(seq) /\ IsLastCombination(before, r)) =>
        /\ ret = "false"
        /\ Ascending(seq)
        /\ seq = seq0

\* The exhausting call was made in a state other than the starting one.
C4_Witness ==
    /\ ret = "false"
    /\ 0 < r /\ r < Len(seq)
    /\ IsLastCombination(before, r)
    /\ before # seq0
    /\ calls >= 4

\* The expected printed selections for "ABCDE", r = 2.
Pair(i, j) == <<ABCDE[i], ABCDE[j]>>
ABCDE_2 == <<Pair(1, 2), Pair(1, 3), Pair(1, 4), Pair(1, 5), Pair(2, 3),
             Pair(2, 4), Pair(2, 5), Pair(3, 4), Pair(3, 5), Pair(4, 5)>>

\* C6 as stated: "ABCDE" with r = 2 visits AB, AC, AD, AE, BC, BD, BE, CD, CE,
\* DE in that order and it is the 11th call that returns false, resetting to
\* "ABCDE".
C6_EleventhCallFalse ==
    (seq0 = ABCDE /\ r = 2) =>
        /\ ShownSelections = SubSeq(ABCDE_2, 1, Len(out))
        /\ pc = "done" => (ret = "false" /\ calls = 11 /\ seq = ABCDE)

\* C6, amended: "ABCDE" with r = 2 visits AB, AC, AD, AE, BC, BD, BE, CD, CE,
\* DE in that order; the first nine calls return true, the 10th call returns
\* false and resets the sequence to "ABCDE".
C6_ABCDE ==
    (seq0 = ABCDE /\ r = 2) =>
        /\ Len(out) <= Len(ABCDE_2)
        /\ ShownSelections = SubSeq(ABCDE_2, 1, Len(out))
        /\ (ret = "false") <=> (calls = 10)
        /\ pc = "done" => (ShownSelections = ABCDE_2 /\ calls = 10 /\ seq = ABCDE)

\* The "ABCDE", r = 2 loop has ended.
C6_Witness ==
    /\ seq0 = ABCDE
    /\ r = 2
    /\ pc = "done"
    /\ Len(out) = 10

\* C7: started on the same ascending sequence with the same split, the
\* 3-argument generator (both copies) and the 4-argument generator return the
\* same boolean on every call and leave the same arrangement after every call,
\* the exhausting call included.
C7_SameAsFourArgument ==
    pc \in {"print", "done"} =>
        /\ seq4 = seq /\ ret4 = ret
        /\ seqB = seq /\ retB = ret

\* All three have returned from the exhausting call of an enumeration of at
\* least six steps over a sequence with a repeated value.
C7_Witness ==
    /\ pc = "done"
    /\ calls >= 6
    /\ 0 < r /\ r < Len(seq)
    /\ ~Distinct(seq0)
    /\ ret4 = "false"
----------------------------------------------------------------------------
\* C10: rotate_disjoint on ranges A before B of any lengths leaves, on the
\* positions of A followed by the positions of B, B's original content
\* followed by A's original content, and changes no other position.
C10_RotateDisjoint ==
    args # <<>> =>
        LET first1 == args[1]
            last1 == args[2]
            first2 == args[3]
            last2 == args[4]
            Gapped(s) == SubSeq(s, first1, last1 - 1) \o SubSeq(s, first2, last2 - 1)
        IN  /\ Len(seq) = Len(before)
            /\ Gapped(seq) =
                 SubSeq(before, first2, last2 - 1) \o SubSeq(before, first1, last1 - 1)
            /\ \A i \in DOMAIN seq :
                 (i < first1 \/ (last1 <= i /\ i < first2) \/ last2 <= i)
                     => seq[i] = before[i]

\* A longer A and a non-empty B with a gap between them, on distinct elements.
C10_Witness ==
    /\ args # <<>>
    /\ args[2] - args[1] > args[4] - args[3]
    /\ args[4] - args[3] >= 1
    /\ args[2] - args[1] >= 3
    /\ args[3] > args[2]
    /\ Distinct(before)
----------------------------------------------------------------------------
\* C9: in a sweep the four counters are zero once reset_tracked_stats has
\* run, and from then until the report no step lowers a counter: a step
\* leaves each counter alone or adds one to it.
C9_CountersMonotonic ==
    /\ []((bpc = "build" /\ br = 0) =>
            (value_comparisons = 0 /\ value_swaps = 0
             /\ iter_comparisons = 0 /\ iter_increments = 0))
    /\ [][bpc # "reset" =>
            /\ value_comparisons' \in {value_comparisons, value_comparisons + 1}
            /\ value_swaps' \in {value_swaps, value_swaps + 1}
            /\ iter_comparisons' \in {iter_comparisons, iter_comparisons + 1}
            /\ iter_increments' \in {iter_increments, iter_increments + 1}]_vars

\* A sweep has reported, every counter having counted something.
C9_Witness ==
    /\ bpc = "done"
    /\ reported = counters
    /\ value_comparisons > 0
    /\ value_swaps > 0
    /\ iter_comparisons > 0
    /\ iter_increments > 0
----------------------------------------------------------------------------
\* Vocabulary of the properties about repeated values.

\* The elements of s at the positions P, in position order.
RECURSIVE AtPositions(_, _)
AtPositions(s, P) ==
    IF P = {} THEN <<>>
    ELSE LET m == CHOOSE x \in P : \A y \in P : x <= y
         IN  <<s[m]>> \o AtPositions(s, P \ {m})

\* The size-k sub-multisets of the ascending sequence s, each written in
\* ascending order.
SubMultisets(s, k) ==
    {AtPositions(s, P) : P \in {Q \in SUBSET DOMAIN s : Cardinality(Q) = k}}

\* C11: from an ascending sequence holding equal values, with 0 < r < n,
\* every call that returns true leaves the selection equal to the least
\* size-r sub-multiset (in ascending order) strictly greater than the previous
\* selection; no selection is visited twice, and when the generator first
\* returns false every size-r sub-multiset has been visited exactly once.
C11_Duplicates ==
    (~Distinct(seq0) /\ 0 < r /\ r < Len(seq0)) =>
        LET all == SubMultisets(seq0, r)
            prev == Selection(before, r)
            cur == Selection(seq, r)
        IN  /\ ret = "true" =>
                  /\ cur \in all
                  /\ LexLess(prev, cur)
                  /\ ~\E c \in all : LexLess(prev, c) /\ LexLess(c, cur)
            /\ \A i, j \in 1..Len(out) :
                  i # j => Selection(out[i], r) # Selection(out[j], r)
            /\ pc = "done" =>
                  /\ {Selection(out[i], r) : i \in 1..Len(out)} = all
                  /\ Len(out) = Cardinality(all)

\* An enumeration over a sequence with a repeated value has ended after
\* visiting fewer selections than there are position subsets.
C11_Witness ==
    /\ pc = "done"
    /\ ~Distinct(seq0)
    /\ 0 < r /\ r < Len(seq0)
    /\ Len(out) >= 4
    /\ Len(out) < Binomial(Len(seq0), r)
----------------------------------------------------------------------------
\* C12: a call made with the selection and the pool both ascending leaves
\* both ascending, whatever it returns; when it returns true, the position
\* std::upper_bound picked is an element of the pool (never last), left is an
\* element of the selection, and the arrangement after the call is the one
\* the swap of those two positions and the gapped rotation produce.
C12_AscendingPreserved ==
    (calls > 0 /\ Ascending(Selection(before, r)) /\ Ascending(Pool(before, r))) =>
        LET first == 1
            mid == r + 1
            last == Len(before) + 1
            pairs == swap_positions(before, first, mid, last)
        IN  /\ Ascending(Selection(seq, r))
            /\ Ascending(Pool(seq, r))
            /\ ret = "true" =>
                  /\ pairs # {}
                  /\ \A pr \in pairs :
                        /\ first <= pr[1] /\ pr[1] < mid
                        /\ mid <= pr[2] /\ pr[2] < last
                        /\ seq = rotate_disjoint(iter_swap(before, pr[1], pr[2]),
                                                 pr[1] + 1, mid, pr[2] + 1, last)
            /\ ret = "false" => pairs = {}

\* A call on ascending ranges returned true after swapping with the last
\* element of a pool of at least two, the selection holding at least three.
C12_Witness ==
    /\ calls > 0
    /\ ret = "true"
    /\ Ascending(Selection(before, r)) /\ Ascending(Pool(before, r))
    /\ r >= 3
    /\ Len(before) - r >= 2
    /\ <<1, Len(before)>> \in swap_positions(before, 1, r + 1, Len(before) + 1)
====
